---- MODULE Spec2Model ----
(***************************************************************************)
(* State-machine model of ollamavision_gui.py: the OllamaVisionAPI client  *)
(* (session token, request building, gateway calls) and the connection     *)
(* state kept by OllamaVisionGUI (connected flag, model catalog, selected  *)
(* and default model, per-backend credentials, settings file).             *)
(*                                                                         *)
(* Text values that the code only tests for emptiness or equality (URLs,   *)
(* API keys, session tokens) are TLA+ strings.  Model identifiers and the  *)
(* search text are sequences of character codes, so that list.sort(),      *)
(* str.lower(), str.strip() and the "in" substring test are computed.      *)
(***************************************************************************)
EXTENDS Integers, Sequences, FiniteSets, TLC

VARIABLES
    api,                \* self.api: the OllamaVisionAPI client, or None (live = FALSE)
    is_connected,       \* self.is_connected
    selected_model,     \* self.selected_model (None or a model id)
    available_models,   \* self.available_models (what the listbox shows)
    all_models,         \* self.all_models
    filtered_models,    \* self.filtered_models
    listbox_sel,        \* models_listbox.curselection(): 0 = nothing, else a 1-based row
    backend_var,        \* self.backend_var
    swarmui_url_var,    \* self.swarmui_url_var
    ollama_url_var,     \* self.ollama_url_var (the one URL entry, shared with TextGen)
    api_key_var,        \* self.api_key_var (the one API-key entry)
    openai_api_key,     \* self.openai_api_key
    openrouter_api_key, \* self.openrouter_api_key
    textgen_url,        \* self.textgen_url
    default_model_var,  \* self.default_model_var
    model_search_var,   \* self.model_search_var
    params,             \* the ten sampling parameters of the Model Settings tab
    settings_file,      \* ollamavision_settings.json (exists = FALSE: no file)
    calls,              \* history: the client calls made by the last operation
    issued,             \* history: the token in the last bootstrap response that had one
    lastOp,             \* history: the last operation and the steps it went through
    track,              \* history: progress through set-default / disconnect / connect
    workers             \* the worker threads started and not yet finished

vars == << api, is_connected, selected_model, available_models, all_models,
           filtered_models, listbox_sel, backend_var, swarmui_url_var,
           ollama_url_var, api_key_var, openai_api_key, openrouter_api_key,
           textgen_url, default_model_var, model_search_var, params,
           settings_file, calls, issued, lastOp, track, workers >>

guiState == << api, is_connected, selected_model, available_models, all_models,
               filtered_models, listbox_sel, backend_var, swarmui_url_var,
               ollama_url_var, api_key_var, openai_api_key, openrouter_api_key,
               textgen_url, default_model_var, model_search_var, params,
               settings_file >>

(***************************************************************************)
(* Bounds and value sets                                                   *)
(***************************************************************************)
\* longest model list a listing response carries
MaxFetched == 2

\* "Qwen-VL", "bakllava", "llava" as character codes
QwenVL == << 81, 119, 101, 110, 45, 86, 76 >>
bakllava == << 98, 97, 107, 108, 108, 97, 118, 97 >>
llava == << 108, 108, 97, 118, 97 >>

ModelIds == { QwenVL, bakllava, llava }

\* the empty string, as a model id or a search text
EmptyStr == << >>

\* Python None where a model id is expected
None == << 0 >>

\* search texts: "", "LL", "vl"
SearchTexts == { EmptyStr, << 76, 76 >>, << 118, 108 >> }

NoToken == "None"
Tokens == { "sess-1", "sess-2" }

DefaultSwarmUrl == "http://localhost:7801"
DefaultOllamaUrl == "http://localhost:11434"
DefaultTextgenUrl == "http://localhost:5000"
Urls == { "", DefaultOllamaUrl, DefaultTextgenUrl }
ApiKeys == { "", "sk-1" }
Backends == { "ollama", "openai", "openrouter", "textgen" }

\* the ten sampling parameters as one value: the defaults, or user-edited values
DefaultParams == "defaults"
ParamValues == { DefaultParams, "edited" }

(***************************************************************************)
(* Python primitives on character-code strings                             *)
(***************************************************************************)
\* truthiness of a str-or-None value
Truthy(s) == s # None /\ s # EmptyStr

\* x in list
Member(x, s) == \E i \in 1..Len(s) : s[i] = x

\* str < str: code-point lexicographic order
StrLess(a, b) ==
    \E k \in 1..(Len(b)) :
        /\ \A j \in 1..(k - 1) : j <= Len(a) /\ a[j] = b[j]
        /\ \/ k = Len(a) + 1
           \/ k <= Len(a) /\ a[k] < b[k]

\* list.sort(): insertion of each element into an ascending list
RECURSIVE SortList(_)
Insert(x, s) ==
    LET smaller == SelectSeq(s, LAMBDA y : ~StrLess(x, y))
        larger == SelectSeq(s, LAMBDA y : StrLess(x, y))
    IN  smaller \o << x >> \o larger
SortList(s) == IF s = << >> THEN << >> ELSE Insert(Head(s), SortList(Tail(s)))

\* str.lower() on ASCII
LowerChar(c) == IF c >= 65 /\ c <= 90 THEN c + 32 ELSE c
Lower(s) == [i \in 1..Len(s) |-> LowerChar(s[i])]

\* needle in haystack (substring test)
Contains(needle, hay) ==
    \E off \in 0..(Len(hay) - Len(needle)) :
        \A j \in 1..Len(needle) : hay[off + j] = needle[j]

\* str.strip()
RECURSIVE LStrip(_)
LStrip(s) == IF s # << >> /\ Head(s) = 32 THEN LStrip(Tail(s)) ELSE s
RECURSIVE RStrip(_)
RStrip(s) ==
    IF s # << >> /\ s[Len(s)] = 32 THEN RStrip(SubSeq(s, 1, Len(s) - 1)) ELSE s
Strip(s) == RStrip(LStrip(s))

\* base_url.rstrip('/') on the base URLs of the model
RStripSlash(u) == IF u = "http://localhost:7801/" THEN DefaultSwarmUrl ELSE u

\* dict helpers: a request body is a function from field names to values
NoBody == [k \in {} |-> ""]
Merge(f, g) ==
    [k \in (DOMAIN f) \cup (DOMAIN g) |-> IF k \in DOMAIN g THEN g[k] ELSE f[k]]

(***************************************************************************)
(* OllamaVisionAPI: the gateway client                                     *)
(***************************************************************************)
\* OllamaVisionAPI.__init__
NewClient(base_url) ==
    [live |-> TRUE, base_url |-> RStripSlash(base_url), session_id |-> NoToken]

\* self.api = None
NoClient == [live |-> FALSE, base_url |-> "", session_id |-> NoToken]

\* one HTTP call as the history records it: the method that made it, the
\* body the caller handed over (data), the body put on the wire (wire), the
\* client's token when it was sent, the kind of answer it got, the success
\* flag of the value handed to the caller, and how the client method ended
\* ("returned" a value or "raised")
CallRec(fn, endpoint, gateway, data, wire, token, resp_kind, success, outcome) ==
    [fn |-> fn, endpoint |-> endpoint, gateway |-> gateway, data |-> data,
     wire |-> wire, token |-> token, resp_kind |-> resp_kind,
     success |-> success, outcome |-> outcome]

\* what the gateway can answer to GetNewSession: a transport failure
\* (connection refused, timeout, non-2xx, body not JSON), a JSON body without
\* session_id, or a JSON body with one
SessionResponses ==
    { [kind |-> "transport_error", session_id |-> NoToken],
      [kind |-> "no_session_id", session_id |-> NoToken] }
    \cup { [kind |-> "session_id", session_id |-> t] : t \in Tokens }

\* OllamaVisionAPI.get_swarmui_session with the token kept on failure
\* replaced by a token cleared on failure
get_swarmui_session_clobber(client, resp) ==
    LET ok == resp.kind = "session_id"
    IN  [api |-> [client EXCEPT !.session_id = resp.session_id],
         result |-> [success |-> ok, session_id |-> resp.session_id],
         call |-> CallRec("get_swarmui_session", "GetNewSession", TRUE, NoBody,
                          NoBody, client.session_id, resp.kind, ok,
                          "returned")]

\* OllamaVisionAPI.get_swarmui_session reporting success whatever the answer
get_swarmui_session_optimistic(client, resp) ==
    LET ok == resp.kind = "session_id"
    IN  [api |-> IF ok THEN [client EXCEPT !.session_id = resp.session_id]
                 ELSE client,
         result |-> [success |-> TRUE, session_id |-> resp.session_id],
         call |-> CallRec("get_swarmui_session", "GetNewSession", TRUE, NoBody,
                          NoBody, client.session_id, resp.kind, TRUE,
                          "returned")]

\* OllamaVisionAPI.get_swarmui_session
get_swarmui_session(client, resp) ==
    LET ok == resp.kind = "session_id"
    IN  [api |-> IF ok THEN [client EXCEPT !.session_id = resp.session_id]
                 ELSE client,
         result |-> [success |-> ok,
                     session_id |-> IF ok THEN resp.session_id ELSE NoToken],
         call |-> CallRec("get_swarmui_session", "GetNewSession", TRUE, NoBody,
                          NoBody, client.session_id, resp.kind, ok,
                          "returned")]

\* OllamaVisionAPI.reset_session: returns the token, or raises
reset_session(client, resp) ==
    LET r == get_swarmui_session(client, resp)
    IN  [api |-> r.api,
         raised |-> ~r.result.success,
         value |-> IF r.result.success THEN r.api.session_id ELSE NoToken,
         call |-> [r.call EXCEPT !.fn = "reset_session",
                                 !.outcome = IF r.result.success THEN "returned"
                                             ELSE "raised"]]

\* what the gateway can answer to a make_request call: a transport failure,
\* or a JSON object with or without "success" = true and with or without a
\* "models" list
JsonResp(success, has_models, models) ==
    [kind |-> "json", success |-> success, has_models |-> has_models,
     models |-> models]
TransportError ==
    [kind |-> "transport_error", success |-> FALSE, has_models |-> FALSE,
     models |-> << >>]

\* data_with_session of make_request, with the session_id field left out
with_session_dropped(client, data) == data

\* data_with_session of make_request
with_session(client, data) ==
    IF client.session_id # NoToken /\ client.session_id # ""
    THEN Merge(data, [session_id |-> client.session_id])
    ELSE data

\* OllamaVisionAPI.make_request with the transport failure returned as a
\* {success: false} value instead of raised
make_request_normalized(client, fn, endpoint, data, resp) ==
    LET failed == resp.kind = "transport_error"
    IN  [raised |-> FALSE,
         value |-> resp,
         call |-> CallRec(fn, endpoint, TRUE, data, with_session(client, data),
                          client.session_id, resp.kind,
                          ~failed /\ resp.success, "returned")]

\* OllamaVisionAPI.make_request, called by client method fn
make_request(client, fn, endpoint, data, resp) ==
    LET failed == resp.kind = "transport_error"
    IN  [raised |-> failed,
         value |-> resp,
         call |-> CallRec(fn, endpoint, TRUE, data, with_session(client, data),
                          client.session_id, resp.kind,
                          ~failed /\ resp.success,
                          IF failed THEN "raised" ELSE "returned")]

\* OllamaVisionAPI.connect_ollama
connect_ollama(client, ollama_url, show_all, resp) ==
    make_request(client, "connect_ollama", "ConnectToOllamaAsync",
                 [ollamaUrl |-> ollama_url, showAllModels |-> show_all], resp)

\* OllamaVisionAPI.connect_textgen
connect_textgen(client, url, resp) ==
    make_request(client, "connect_textgen", "ConnectToTextGenAsync",
                 [textgenUrl |-> url], resp)

\* the backend-dependent fields with siteName added for OpenAI as well
BackendFields_site_always(a) ==
    IF a.backend_type = "ollama" THEN [ollamaUrl |-> a.ollama_url]
    ELSE IF a.backend_type \in {"openai", "openrouter"}
         THEN [apiKey |-> a.api_key, siteName |-> a.site_name]
         ELSE NoBody

\* the backend-dependent fields the three generation requests add
BackendFields(a) ==
    IF a.backend_type = "ollama" THEN [ollamaUrl |-> a.ollama_url]
    ELSE IF a.backend_type \in {"openai", "openrouter"}
         THEN IF a.backend_type = "openrouter"
              THEN [apiKey |-> a.api_key, siteName |-> a.site_name]
              ELSE [apiKey |-> a.api_key]
         ELSE NoBody

\* if system_prompt: data["systemPrompt"] = system_prompt
SystemPromptField(a) ==
    IF a.system_prompt # "None" /\ a.system_prompt # ""
    THEN [systemPrompt |-> a.system_prompt]
    ELSE NoBody

\* OllamaVisionAPI.analyze_image
analyze_image(client, a, resp) ==
    make_request(client, "analyze_image", "AnalyzeImageAsync",
        Merge(Merge([model |-> a.model, backendType |-> a.backend_type,
                     imageData |-> a.image_data, prompt |-> a.prompt,
                     temperature |-> a.temperature, maxTokens |-> a.max_tokens],
                    SystemPromptField(a)),
              BackendFields(a)),
        resp)

\* OllamaVisionAPI.batch_caption_images
batch_caption_images(client, a, resp) ==
    make_request(client, "batch_caption_images", "BatchCaptionImagesAsync",
        Merge([folderPath |-> a.folder_path, model |-> a.model,
               backendType |-> a.backend_type, captionStyle |-> a.caption_style,
               triggerWord |-> a.trigger_word, temperature |-> a.temperature,
               maxTokens |-> a.max_tokens],
              BackendFields(a)),
        resp)

\* OllamaVisionAPI.enhance_text_prompt
enhance_text_prompt(client, a, resp) ==
    make_request(client, "enhance_text_prompt", "EnhanceTextPromptAsync",
        Merge(Merge([model |-> a.model, backendType |-> a.backend_type,
                     prompt |-> a.prompt, temperature |-> a.temperature,
                     maxTokens |-> a.max_tokens],
                    SystemPromptField(a)),
              BackendFields(a)),
        resp)

\* what a provider's /v1/models can answer: a transport failure, or a JSON
\* object whose "data" entries carry the ids in models (an entry without an
\* id carries the empty string)
\* all_models of get_openai_models / get_openrouter_models: the entries with
\* a non-empty id, in response order
ValidIds(models) == SelectSeq(models, LAMBDA m : m # EmptyStr)

\* OllamaVisionAPI.get_openai_models, get_openrouter_models (provider names
\* the one called): never raises on a transport failure
get_provider_models(provider, api_key, resp) ==
    LET failed == resp.kind = "transport_error"
    IN  [success |-> ~failed,
         models |-> IF failed THEN << >> ELSE ValidIds(resp.models),
         call |-> CallRec(IF provider = "openai" THEN "get_openai_models"
                          ELSE "get_openrouter_models",
                          IF provider = "openai"
                          THEN "https://api.openai.com/v1/models"
                          ELSE "https://openrouter.ai/api/v1/models",
                          FALSE, [Authorization |-> api_key],
                          [Authorization |-> api_key], NoToken, resp.kind,
                          ~failed, "returned")]

(***************************************************************************)
(* OllamaVisionGUI: settings file, catalog and connection                  *)
(***************************************************************************)
\* the settings document; has_params tells whether the ten sampling
\* parameters are among its keys
NoFile ==
    [exists |-> FALSE, swarmui_url |-> "", backend |-> "", ollama_url |-> "",
     api_key |-> "", default_model |-> EmptyStr, openai_api_key |-> "",
     openrouter_api_key |-> "", textgen_url |-> "", has_params |-> FALSE,
     params |-> DefaultParams]

\* on_backend_change: the API-key entry after the backend became b
KeyAfterBackendChange(b, key, openai, openrouter) ==
    IF b = "openai" THEN openai
    ELSE IF b = "openrouter" THEN openrouter
    ELSE IF b = "textgen" THEN key
    ELSE ""

\* on_backend_change: the URL entry after the backend became b
UrlAfterBackendChange(b, url, tg_url) == IF b = "textgen" THEN tg_url ELSE url

\* the first block of auto_save_settings / save_settings: the stored
\* credential of the active backend is refreshed from the entry (key is the
\* content of the API-key entry)
StoredOpenai(key) == IF backend_var = "openai" THEN key ELSE openai_api_key
StoredOpenrouter(key) ==
    IF backend_var = "openrouter" THEN key ELSE openrouter_api_key
StoredTextgen == IF backend_var = "textgen" THEN ollama_url_var ELSE textgen_url

\* the settings dict auto_save_settings writes (the session_id key, a copy
\* of a display field, is left out), with the API-key entry and the default
\* model as they are when the file is written
AutoSaved(key, default_model) ==
    [exists |-> TRUE, swarmui_url |-> swarmui_url_var, backend |-> backend_var,
     ollama_url |-> ollama_url_var, api_key |-> key,
     default_model |-> default_model, openai_api_key |-> StoredOpenai(key),
     openrouter_api_key |-> StoredOpenrouter(key), textgen_url |-> StoredTextgen,
     has_params |-> FALSE, params |-> DefaultParams]

\* the settings dict of save_settings without the ten sampling parameters
Saved_without_params == AutoSaved(api_key_var, default_model_var)

\* the settings dict save_settings writes
Saved ==
    [AutoSaved(api_key_var, default_model_var)
        EXCEPT !.has_params = TRUE, !.params = params]

\* update_models_display: the listbox and available_models follow
\* filtered_models, and the listbox selection is cleared
Displayed(filtered) == [available |-> filtered, sel |-> 0]

\* the filter comparing the search text with the ids as they are written
Filtered_case_sensitive(all, text) ==
    IF text = EmptyStr THEN all
    ELSE SelectSeq(all, LAMBDA m : Contains(text, m))

\* the filter without the branch for an empty search text, an empty text
\* matching nothing
Filtered_empty_matches_nothing(all, text) ==
    SelectSeq(all, LAMBDA m : Lower(text) # EmptyStr
                               /\ Contains(Lower(text), Lower(m)))

\* filter_models: the members of all whose lower-cased id contains the
\* lower-cased search text; everything when the text is empty
Filtered(all, text) ==
    IF Lower(text) = EmptyStr THEN all
    ELSE SelectSeq(all, LAMBDA m : Contains(Lower(text), Lower(m)))

\* model lists a gateway or provider listing can carry: distinct ids, in any
\* order, at most MaxFetched of them
FetchLists ==
    UNION { { s \in [1..n -> ModelIds] : \A i, j \in 1..n : i # j => s[i] # s[j] }
            : n \in 0..MaxFetched }

\* answers to the listing call of load_models, per backend
ListingResponses(b) ==
    IF b = "ollama"
    THEN { TransportError, JsonResp(FALSE, FALSE, << >>), JsonResp(TRUE, FALSE, << >>) }
         \cup { JsonResp(TRUE, TRUE, l) : l \in FetchLists }
    ELSE IF b \in {"openai", "openrouter"}
    THEN { TransportError, JsonResp(TRUE, TRUE, << EmptyStr, llava >>) }
         \cup { JsonResp(TRUE, TRUE, l) : l \in FetchLists }
    ELSE { TransportError }

\* answers to the validation call of connect_backend, per backend
ValidationResponses(b) ==
    IF b = "ollama"
    THEN { TransportError, JsonResp(FALSE, FALSE, << >>), JsonResp(TRUE, TRUE, << >>) }
    ELSE IF b = "textgen"
    THEN { TransportError, JsonResp(FALSE, FALSE, << >>) }
         \cup { JsonResp(TRUE, TRUE, l) : l \in { << >>, << llava, bakllava >> } }
    ELSE { TransportError }

\* load_models: what it leaves in all_models, filtered_models,
\* available_models and the listbox, the listing call it made (if any) and
\* whether a catalog was loaded.  cur holds the fields it reads.
load_models(cur, resp) ==
    LET cleared == [all |-> cur.all, filtered |-> cur.filtered,
                    available |-> << >>, sel |-> 0, calls |-> << >>,
                    loaded |-> FALSE, listed |-> FALSE]
        Loaded(models, call) ==
            [all |-> SortList(models), filtered |-> SortList(models),
             available |-> Displayed(SortList(models)).available,
             sel |-> Displayed(SortList(models)).sel, calls |-> << call >>,
             loaded |-> TRUE, listed |-> TRUE]
    IN  IF cur.backend = "ollama"
        THEN LET r == connect_ollama(cur.api, DefaultOllamaUrl, TRUE, resp)
             IN  IF ~r.raised /\ r.value.success /\ r.value.has_models
                 THEN Loaded(r.value.models, r.call)
                 ELSE [cleared EXCEPT !.calls = << r.call >>, !.listed = TRUE]
        ELSE IF cur.backend \in {"openai", "openrouter"}
        THEN IF cur.api_key = ""
             THEN cleared
             ELSE LET r == get_provider_models(cur.backend, cur.api_key, resp)
                  IN  IF r.success
                      THEN Loaded(r.models, r.call)
                      ELSE [cleared EXCEPT !.calls = << r.call >>, !.listed = TRUE]
        ELSE cleared

\* the validation of connect_backend taking any answer of the gateway, and
\* any key, for a success
Validation_lenient(client, b, url, key, resp) ==
    IF b = "ollama"
    THEN [ok |-> TRUE, calls |-> << connect_ollama(client, url, TRUE, resp).call >>,
          models |-> resp.models]
    ELSE IF b = "textgen" /\ url # ""
    THEN [ok |-> TRUE, calls |-> << connect_textgen(client, url, resp).call >>,
          models |-> resp.models]
    ELSE [ok |-> TRUE, calls |-> << >>, models |-> << >>]

\* connect_backend, lines 921-941: the backend-specific validation, with the
\* gateway call it made (if any)
Validation(client, b, url, key, resp) ==
    IF b = "ollama"
    THEN LET r == connect_ollama(client, url, TRUE, resp)
         IN  [ok |-> ~r.raised /\ r.value.success, calls |-> << r.call >>,
              models |-> r.value.models]
    ELSE IF b = "textgen"
    THEN IF url = ""
         THEN [ok |-> FALSE, calls |-> << >>, models |-> << >>]
         ELSE LET r == connect_textgen(client, url, resp)
              IN  [ok |-> ~r.raised /\ r.value.success, calls |-> << r.call >>,
                   models |-> r.value.models]
    ELSE IF b \in {"openai", "openrouter"}
    THEN [ok |-> key # "", calls |-> << >>, models |-> << >>]
    ELSE [ok |-> FALSE, calls |-> << >>, models |-> << >>]

\* the selection after a catalog load ignoring the default model
SelectAfterLoad_first(available, default, selected) ==
    IF available # << >> THEN available[1] ELSE selected

\* connect_backend, lines 949-965: the model selected after a catalog load
SelectAfterLoad(available, default, selected) ==
    IF available # << >>
    THEN IF Truthy(Strip(default)) /\ Member(Strip(default), available)
         THEN Strip(default)
         ELSE available[1]
    ELSE selected

NoTrack == [phase |-> 0, d |-> EmptyStr, backend |-> ""]

\* history of the step just taken: the operation when it is a connect, a
\* disconnect or a set-default, the steps a connect went through, the model
\* list its listing response carried (fetched) and the one its validation
\* response carried (validated)
Op(name, steps, fetched, validated) ==
    [op |-> name, steps |-> steps, fetched |-> fetched, validated |-> validated]
Idle == Op("other", << >>, << >>, << >>)

\* what load_settings leaves in the fields, from file f
load_settings(f) ==
    IF ~f.exists
    THEN [swarmui_url |-> DefaultSwarmUrl, backend |-> "ollama",
          ollama_url |-> DefaultOllamaUrl, api_key |-> "",
          default_model |-> EmptyStr, openai_api_key |-> "",
          openrouter_api_key |-> "", textgen_url |-> DefaultTextgenUrl,
          params |-> DefaultParams]
    ELSE [swarmui_url |-> f.swarmui_url, backend |-> f.backend,
          ollama_url |-> UrlAfterBackendChange(f.backend, f.ollama_url,
                                               f.textgen_url),
          api_key |-> KeyAfterBackendChange(f.backend, f.api_key,
                                            f.openai_api_key,
                                            f.openrouter_api_key),
          default_model |-> f.default_model,
          openai_api_key |-> f.openai_api_key,
          openrouter_api_key |-> f.openrouter_api_key,
          textgen_url |-> f.textgen_url,
          params |-> IF f.has_params THEN f.params ELSE DefaultParams]

\* settings files the application may find when it starts
InitFiles ==
    { NoFile,
      [NoFile EXCEPT !.exists = TRUE, !.swarmui_url = DefaultSwarmUrl,
                     !.backend = "openai", !.ollama_url = DefaultOllamaUrl,
                     !.api_key = "sk-1", !.openai_api_key = "sk-1",
                     !.default_model = llava,
                     !.textgen_url = DefaultTextgenUrl],
      [NoFile EXCEPT !.exists = TRUE, !.swarmui_url = DefaultSwarmUrl,
                     !.backend = "textgen", !.ollama_url = DefaultOllamaUrl,
                     !.openrouter_api_key = "sk-1", !.textgen_url = ""],
      [NoFile EXCEPT !.exists = TRUE, !.swarmui_url = "http://localhost:7801/",
                     !.backend = "mistral", !.ollama_url = DefaultOllamaUrl,
                     !.textgen_url = DefaultTextgenUrl] }

\* OllamaVisionGUI.__init__ followed by load_settings(f)
InitFrom(f) ==
    LET g == load_settings(f)
    IN  /\ api = NewClient(DefaultSwarmUrl)
        /\ is_connected = FALSE
        /\ selected_model = None
        /\ available_models = << >>
        /\ all_models = << >>
        /\ filtered_models = << >>
        /\ listbox_sel = 0
        /\ backend_var = g.backend
        /\ swarmui_url_var = g.swarmui_url
        /\ ollama_url_var = g.ollama_url
        /\ api_key_var = g.api_key
        /\ openai_api_key = g.openai_api_key
        /\ openrouter_api_key = g.openrouter_api_key
        /\ textgen_url = g.textgen_url
        /\ default_model_var = g.default_model
        /\ model_search_var = EmptyStr
        /\ params = g.params
        /\ settings_file = f
        /\ calls = << >>
        /\ issued = NoToken
        /\ lastOp = Idle
        /\ track = NoTrack
        /\ workers = {}

Init == \E f \in InitFiles : InitFrom(f)

credentials == << backend_var, swarmui_url_var, ollama_url_var, api_key_var,
                  openai_api_key, openrouter_api_key, textgen_url >>

\* history: whether the answers a connect got mean that its bootstrap, its
\* backend validation and its catalog listing succeeded, judged from the
\* answers and the entries alone
BootstrapPasses(sresp) == sresp.kind = "session_id"
ValidationPasses(b, url, key, vresp) ==
    IF b = "ollama" THEN vresp.kind = "json" /\ vresp.success
    ELSE IF b = "textgen" THEN url # "" /\ vresp.kind = "json" /\ vresp.success
    ELSE IF b \in {"openai", "openrouter"} THEN key # ""
    ELSE FALSE
ListingOutcome(b, lresp) ==
    IF b = "ollama"
    THEN IF lresp.kind = "json" /\ lresp.success /\ lresp.has_models
         THEN "listing_ok" ELSE "listing_failed"
    ELSE IF b \in {"openai", "openrouter"}
    THEN IF lresp.kind = "json" THEN "listing_ok" ELSE "listing_failed"
    ELSE "listing_not_made"
ConnectSteps(sresp, vresp, lresp) ==
    IF ~BootstrapPasses(sresp) THEN << "bootstrap_failed" >>
    ELSE IF ~ValidationPasses(backend_var, ollama_url_var, api_key_var, vresp)
    THEN << "bootstrap_ok", "validation_failed" >>
    ELSE << "bootstrap_ok", "validation_ok", ListingOutcome(backend_var, lresp) >>
ConnectOp(sresp, vresp, lresp) ==
    LET steps == ConnectSteps(sresp, vresp, lresp)
    IN  Op("connect_backend", steps,
           IF steps[Len(steps)] = "listing_ok"
           THEN SelectSeq(lresp.models, LAMBDA m : m # EmptyStr) ELSE << >>,
           IF Len(steps) = 3 THEN vresp.models ELSE << >>)

\* connect_backend: sresp, vresp and lresp are the answers to the session
\* bootstrap, to the validation call and to the listing call of load_models
connect_backend(sresp, vresp, lresp) ==
    LET s == get_swarmui_session(NewClient(swarmui_url_var), sresp)
        v == Validation(s.api, backend_var, ollama_url_var, api_key_var, vresp)
        l == load_models([api |-> s.api, backend |-> backend_var,
                          api_key |-> api_key_var, all |-> all_models,
                          filtered |-> filtered_models], lresp)
    IN  /\ api' = s.api
        /\ issued' = IF sresp.kind = "session_id" THEN sresp.session_id ELSE NoToken
        /\ lastOp' = ConnectOp(sresp, vresp, lresp)
        /\ UNCHANGED << credentials, default_model_var, model_search_var,
                        params, settings_file, workers >>
        /\ IF ~s.result.success
           THEN /\ vresp = TransportError /\ lresp = TransportError
                /\ calls' = << s.call >>
                /\ track' = NoTrack
                /\ UNCHANGED << is_connected, selected_model, available_models,
                                all_models, filtered_models, listbox_sel >>
           ELSE IF ~v.ok
           THEN /\ lresp = TransportError
                /\ calls' = << s.call >> \o v.calls
                /\ track' = NoTrack
                /\ UNCHANGED << is_connected, selected_model, available_models,
                                all_models, filtered_models, listbox_sel >>
           ELSE /\ calls' = << s.call >> \o v.calls \o l.calls
                /\ all_models' = l.all
                /\ filtered_models' = l.filtered
                /\ available_models' = l.available
                /\ listbox_sel' = l.sel
                /\ selected_model' = SelectAfterLoad(l.available,
                                                     default_model_var,
                                                     selected_model)
                /\ is_connected' = TRUE
                /\ track' = IF track.phase = 2
                            THEN [track EXCEPT !.phase = 3]
                            ELSE NoTrack

\* disconnect_backend that also forgets the default model
disconnect_backend_forgets_default ==
    /\ is_connected' = FALSE
    /\ selected_model' = None
    /\ available_models' = << >>
    /\ all_models' = << >>
    /\ filtered_models' = << >>
    /\ api' = NoClient
    /\ listbox_sel' = 0
    /\ default_model_var' = EmptyStr
    /\ calls' = << >>
    /\ lastOp' = Op("disconnect_backend", << >>, << >>, << >>)
    /\ track' = IF track.phase = 1 THEN [track EXCEPT !.phase = 2] ELSE NoTrack
    /\ UNCHANGED << credentials, model_search_var, params, settings_file,
                    issued, workers >>

\* disconnect_backend that clears all_models and keeps filtered_models
disconnect_backend_keeps_filtered ==
    /\ is_connected' = FALSE
    /\ selected_model' = None
    /\ all_models' = << >>
    /\ api' = NoClient
    /\ calls' = << >>
    /\ lastOp' = Op("disconnect_backend", << >>, << >>, << >>)
    /\ track' = IF track.phase = 1 THEN [track EXCEPT !.phase = 2] ELSE NoTrack
    /\ UNCHANGED << available_models, filtered_models, listbox_sel,
                    credentials, default_model_var, model_search_var, params,
                    settings_file, issued, workers >>

\* disconnect_backend that keeps the selected model
disconnect_backend_keeps_selection ==
    /\ is_connected' = FALSE
    /\ available_models' = << >>
    /\ all_models' = << >>
    /\ filtered_models' = << >>
    /\ api' = NoClient
    /\ listbox_sel' = 0
    /\ calls' = << >>
    /\ lastOp' = Op("disconnect_backend", << >>, << >>, << >>)
    /\ track' = IF track.phase = 1 THEN [track EXCEPT !.phase = 2] ELSE NoTrack
    /\ UNCHANGED << selected_model, credentials, default_model_var,
                    model_search_var, params, settings_file, issued, workers >>

\* disconnect_backend that keeps the catalog
disconnect_backend_keeps_catalog ==
    /\ is_connected' = FALSE
    /\ selected_model' = None
    /\ api' = NoClient
    /\ calls' = << >>
    /\ lastOp' = Op("disconnect_backend", << >>, << >>, << >>)
    /\ track' = IF track.phase = 1 THEN [track EXCEPT !.phase = 2] ELSE NoTrack
    /\ UNCHANGED << available_models, all_models, filtered_models, listbox_sel,
                    credentials, default_model_var, model_search_var, params,
                    settings_file, issued, workers >>

\* disconnect_backend that keeps all_models
disconnect_backend_keeps_all ==
    /\ is_connected' = FALSE
    /\ selected_model' = None
    /\ available_models' = << >>
    /\ filtered_models' = << >>
    /\ api' = NoClient
    /\ listbox_sel' = 0
    /\ calls' = << >>
    /\ lastOp' = Op("disconnect_backend", << >>, << >>, << >>)
    /\ track' = IF track.phase = 1 THEN [track EXCEPT !.phase = 2] ELSE NoTrack
    /\ UNCHANGED << all_models, credentials, default_model_var,
                    model_search_var, params, settings_file, issued, workers >>

\* disconnect_backend
disconnect_backend ==
    /\ is_connected' = FALSE
    /\ selected_model' = None
    /\ available_models' = << >>
    /\ all_models' = << >>
    /\ filtered_models' = << >>
    /\ api' = NoClient
    /\ listbox_sel' = Displayed(<< >>).sel
    /\ calls' = << >>
    /\ lastOp' = Op("disconnect_backend", << >>, << >>, << >>)
    /\ track' = IF track.phase = 1 THEN [track EXCEPT !.phase = 2] ELSE NoTrack
    /\ UNCHANGED << credentials, default_model_var, model_search_var, params,
                    settings_file, issued, workers >>

\* answers to the session bootstrap of a connect (one token: every connect
\* starts a new client, so which token it is makes no difference)
ConnectSessionResponses == { r \in SessionResponses : r.session_id # "sess-2" }

\* toggle_connection, the Connect / Disconnect button
toggle_connection ==
    IF is_connected
    THEN disconnect_backend
    ELSE \E sresp \in ConnectSessionResponses :
         \E vresp \in ValidationResponses(backend_var) :
         \E lresp \in ListingResponses(backend_var) :
             connect_backend(sresp, vresp, lresp)

\* filter_models that moves the selection to the first model shown when the
\* selected model is filtered out
filter_models_reselects(text) ==
    /\ model_search_var' = text
    /\ filtered_models' = Filtered(all_models, text)
    /\ available_models' = Displayed(Filtered(all_models, text)).available
    /\ listbox_sel' = Displayed(Filtered(all_models, text)).sel
    /\ selected_model' = IF Member(selected_model, Filtered(all_models, text))
                             \/ Filtered(all_models, text) = << >>
                          THEN selected_model
                          ELSE Filtered(all_models, text)[1]
    /\ calls' = << >>
    /\ lastOp' = Op("filter_models",
                    << IF filtered_models = all_models THEN "full" ELSE "narrowed" >>,
                    << >>, << >>)
    /\ track' = NoTrack
    /\ UNCHANGED << api, is_connected, all_models, credentials,
                    default_model_var, params, settings_file, issued, workers >>

\* the search entry is written (typing, or clear_model_search writing ""):
\* the trace on model_search_var runs filter_models; the history keeps
\* whether the list was narrowed before
filter_models(text) ==
    /\ model_search_var' = text
    /\ filtered_models' = Filtered(all_models, text)
    /\ available_models' = Displayed(Filtered(all_models, text)).available
    /\ listbox_sel' = Displayed(Filtered(all_models, text)).sel
    /\ calls' = << >>
    /\ lastOp' = Op("filter_models",
                    << IF filtered_models = all_models THEN "full" ELSE "narrowed" >>,
                    << >>, << >>)
    /\ track' = NoTrack
    /\ UNCHANGED << api, is_connected, selected_model, all_models, credentials,
                    default_model_var, params, settings_file, issued, workers >>

\* the user types in the search entry
SearchTyped == \E text \in SearchTexts \ {model_search_var} : filter_models(text)

\* clear_model_search, the Clear button
clear_model_search == filter_models(EmptyStr)

\* on_model_select: the user clicks row i of the listbox
on_model_select(i) ==
    /\ i \in 1..Len(available_models)
    /\ listbox_sel' = i
    /\ selected_model' = available_models[i]
    /\ calls' = << >>
    /\ lastOp' = Idle
    /\ track' = NoTrack
    /\ UNCHANGED << api, is_connected, available_models, all_models,
                    filtered_models, credentials, default_model_var,
                    model_search_var, params, settings_file, issued, workers >>

ModelClicked == \E i \in 1..MaxFetched + 1 : on_model_select(i)

\* set_as_default_model, with auto_save_settings
set_as_default_model ==
    /\ calls' = << >>
    /\ IF ~Truthy(selected_model)
       THEN /\ lastOp' = Op("set_as_default_model", << "no_model" >>, << >>, << >>)
            /\ track' = NoTrack
            /\ UNCHANGED guiState
       ELSE /\ default_model_var' = selected_model
            /\ openai_api_key' = StoredOpenai(api_key_var)
            /\ openrouter_api_key' = StoredOpenrouter(api_key_var)
            /\ textgen_url' = StoredTextgen
            /\ settings_file' = AutoSaved(api_key_var, selected_model)
            /\ lastOp' = Op("set_as_default_model", << "saved" >>, << >>, << >>)
            /\ track' = [phase |-> 1, d |-> selected_model, backend |-> backend_var]
            /\ UNCHANGED << api, is_connected, selected_model, available_models,
                            all_models, filtered_models, listbox_sel,
                            backend_var, swarmui_url_var, ollama_url_var,
                            api_key_var, model_search_var, params >>
    /\ UNCHANGED << issued, workers >>

\* the user picks backend b in the combobox: on_backend_change
on_backend_change(b) ==
    /\ backend_var' = b
    /\ api_key_var' = KeyAfterBackendChange(b, api_key_var, openai_api_key,
                                            openrouter_api_key)
    /\ ollama_url_var' = UrlAfterBackendChange(b, ollama_url_var, textgen_url)
    /\ calls' = << >>
    /\ track' = NoTrack
    /\ UNCHANGED << api, is_connected, selected_model, available_models,
                    all_models, filtered_models, listbox_sel, swarmui_url_var,
                    openai_api_key, openrouter_api_key, textgen_url,
                    default_model_var, model_search_var, params, settings_file,
                    issued, workers >>

BackendPicked ==
    \E b \in Backends \ {backend_var} : on_backend_change(b) /\ lastOp' = Idle

\* the user types key into the API-key entry (shown for OpenAI and
\* OpenRouter): on_api_key_change, with auto_save_settings
on_api_key_change(key) ==
    /\ backend_var \in {"openai", "openrouter"}
    /\ api_key_var' = key
    /\ openai_api_key' = StoredOpenai(key)
    /\ openrouter_api_key' = StoredOpenrouter(key)
    /\ textgen_url' = StoredTextgen
    /\ settings_file' = AutoSaved(key, default_model_var)
    /\ calls' = << >>
    /\ lastOp' = Idle
    /\ track' = NoTrack
    /\ UNCHANGED << api, is_connected, selected_model, available_models,
                    all_models, filtered_models, listbox_sel, backend_var,
                    swarmui_url_var, ollama_url_var, default_model_var,
                    model_search_var, params, issued, workers >>

KeyTyped == \E key \in ApiKeys \ {api_key_var} : on_api_key_change(key)

\* the user types url into the URL entry (shown for Ollama and TextGen); the
\* entry has no handler
UrlTyped ==
    /\ backend_var \in {"ollama", "textgen"}
    /\ \E url \in Urls \ {ollama_url_var} : ollama_url_var' = url
    /\ calls' = << >>
    /\ lastOp' = Idle
    /\ track' = NoTrack
    /\ UNCHANGED << api, is_connected, selected_model, available_models,
                    all_models, filtered_models, listbox_sel, backend_var,
                    swarmui_url_var, api_key_var, openai_api_key,
                    openrouter_api_key, textgen_url, default_model_var,
                    model_search_var, params, settings_file, issued, workers >>

\* The connection tab in use.  The credentials are those of the settings
\* file found at start and those that backend switches put in the entries;
\* KeyTyped and UrlTyped (typing into the entries) are not steps here.
Next ==
    \/ toggle_connection
    \/ SearchTyped
    \/ clear_model_search
    \/ ModelClicked
    \/ set_as_default_model
    \/ BackendPicked

Spec == Init /\ [][Next]_vars

(***************************************************************************)
(* The client on its own: any sequence of calls of its methods on one      *)
(* OllamaVisionAPI object                                                  *)
(***************************************************************************)
clientFrame ==
    << is_connected, selected_model, available_models, all_models,
       filtered_models, listbox_sel, credentials, default_model_var,
       model_search_var, params, settings_file, track >>

GenerationResponses ==
    { TransportError, JsonResp(TRUE, FALSE, << >>), JsonResp(FALSE, FALSE, << >>) }

\* arguments of analyze_image, batch_caption_images and enhance_text_prompt;
\* "None" is Python's None (no key, no system prompt)
GenerationArgs ==
    [model : { llava }, backend_type : Backends, image_data : { "base64" },
     folder_path : { "/images" }, caption_style : { "Danbooru Tags" },
     trigger_word : { "1girl" }, prompt : { "Describe this image in detail" },
     temperature : { "0.8" }, max_tokens : { "500" },
     ollama_url : { DefaultOllamaUrl }, api_key : { "None", "sk-1" },
     site_name : { "SwarmUI" }, system_prompt : { "None", "", "director" }]

ClientBootstrap ==
    \E resp \in SessionResponses :
        LET r == get_swarmui_session(api, resp)
        IN  /\ api' = r.api
            /\ calls' = << r.call >>
            /\ lastOp' = Idle
            /\ UNCHANGED workers
            /\ issued' = IF resp.kind = "session_id" THEN resp.session_id
                         ELSE issued
            /\ UNCHANGED clientFrame

ClientReset ==
    \E resp \in SessionResponses :
        LET r == reset_session(api, resp)
        IN  /\ api' = r.api
            /\ calls' = << r.call >>
            /\ lastOp' = Idle
            /\ UNCHANGED workers
            /\ issued' = IF resp.kind = "session_id" THEN resp.session_id
                         ELSE issued
            /\ UNCHANGED clientFrame

ClientConnectOllama ==
    \E url \in Urls, show_all \in BOOLEAN, resp \in ValidationResponses("ollama") :
        /\ calls' = << connect_ollama(api, url, show_all, resp).call >>
        /\ lastOp' = Idle
        /\ UNCHANGED << api, issued, workers >>
        /\ UNCHANGED clientFrame

ClientConnectTextgen ==
    \E url \in Urls, resp \in ValidationResponses("textgen") :
        /\ calls' = << connect_textgen(api, url, resp).call >>
        /\ lastOp' = Idle
        /\ UNCHANGED << api, issued, workers >>
        /\ UNCHANGED clientFrame

ClientAnalyze ==
    \E a \in GenerationArgs, resp \in GenerationResponses :
        /\ calls' = << analyze_image(api, a, resp).call >>
        /\ lastOp' = Op("analyze_image", << a.backend_type, a.system_prompt >>,
                      << >>, << >>)
        /\ UNCHANGED << api, issued, workers >>
        /\ UNCHANGED clientFrame

ClientBatch ==
    \E a \in GenerationArgs, resp \in GenerationResponses :
        /\ a.system_prompt = "None"
        /\ calls' = << batch_caption_images(api, a, resp).call >>
        /\ lastOp' = Op("batch_caption_images", << a.backend_type, a.system_prompt >>,
                      << >>, << >>)
        /\ UNCHANGED << api, issued, workers >>
        /\ UNCHANGED clientFrame

ClientEnhance ==
    \E a \in GenerationArgs, resp \in GenerationResponses :
        /\ calls' = << enhance_text_prompt(api, a, resp).call >>
        /\ lastOp' = Op("enhance_text_prompt", << a.backend_type, a.system_prompt >>,
                      << >>, << >>)
        /\ UNCHANGED << api, issued, workers >>
        /\ UNCHANGED clientFrame

ClientListModels ==
    \E provider \in { "openai", "openrouter" }, key \in ApiKeys,
       resp \in ListingResponses("openai") :
        /\ calls' = << get_provider_models(provider, key, resp).call >>
        /\ lastOp' = Idle
        /\ UNCHANGED << api, issued, workers >>
        /\ UNCHANGED clientFrame

NextClient ==
    \/ ClientBootstrap
    \/ ClientReset
    \/ ClientConnectOllama
    \/ ClientConnectTextgen
    \/ ClientAnalyze
    \/ ClientBatch
    \/ ClientEnhance
    \/ ClientListModels

\* OllamaVisionGUI.__init__ without a settings file: self.api is a new client
InitClient == InitFrom(NoFile)

SpecClient == InitClient /\ [][NextClient]_vars

(***************************************************************************)
(* The Single Image, Batch and Text tabs: each button handler checks its   *)
(* inputs on the GUI thread and starts a worker thread; the worker reads   *)
(* the entries and self.api when it runs and makes one gateway call        *)
(***************************************************************************)
\* most worker threads alive at once
MaxWorkers == 2

\* get_selected_model
get_selected_model ==
    IF Truthy(selected_model) THEN selected_model
    ELSE IF listbox_sel # 0 /\ listbox_sel <= Len(available_models)
         THEN available_models[listbox_sel]
         ELSE None

\* threading.Thread(target = ..., args = (model,)).start()
Worker(kind, model) == [kind |-> kind, model |-> model]

\* the guards of the three handlers letting everything pass
ModelGuards_open == "checked"

\* the guards shared by analyze_single_image, process_batch and enhance_text
\* after the check of the handler's own input: "checked" when they pass
ModelGuards ==
    IF available_models = << >> THEN "not_connected"
    ELSE IF ~Truthy(get_selected_model) THEN "no_model"
    ELSE "checked"

\* a button handler of the three tabs: has_input tells whether the tab's own
\* input is there, input_first whether the handler checks it before the
\* model guards (Single Image, Batch) or after them (Text).  The history
\* keeps the verdict, whether the input was there, and the backend, URL
\* entry and API-key entry as they were when the handler ran.
StartWorker(handler, kind, has_input, input_first) ==
    LET verdict == IF input_first /\ ~has_input THEN "no_input"
                   ELSE IF ModelGuards # "checked" THEN ModelGuards
                   ELSE IF ~has_input THEN "no_input"
                   ELSE "started"
    IN  /\ Cardinality(workers) < MaxWorkers
        /\ workers' = IF verdict = "started"
                      THEN workers \cup { Worker(kind, get_selected_model) }
                      ELSE workers
        /\ calls' = << >>
        /\ lastOp' = Op(handler,
                        << verdict,
                           IF has_input THEN "input_present" ELSE "input_missing",
                           backend_var, ollama_url_var, api_key_var >>,
                        << >>, << >>)
        /\ track' = NoTrack
        /\ UNCHANGED << guiState, issued >>

\* analyze_single_image, the Analyze Image button
analyze_single_image ==
    \E has_image \in BOOLEAN :
        StartWorker("analyze_single_image", "analyze", has_image, TRUE)

\* process_batch, the Process Batch button
process_batch ==
    \E has_folder \in BOOLEAN :
        StartWorker("process_batch", "batch", has_folder, TRUE)

\* enhance_text, the Enhance Text button
enhance_text ==
    \E has_text \in BOOLEAN :
        StartWorker("enhance_text", "enhance", has_text, FALSE)

\* the keyword arguments the worker threads hand to the client, read from
\* the entries when the thread runs
WorkerArgs(w, system_prompt) ==
    [model |-> w.model, backend_type |-> backend_var, image_data |-> "base64",
     folder_path |-> "/images", caption_style |-> "Danbooru Tags",
     trigger_word |-> "1girl", prompt |-> "Describe this image in detail",
     temperature |-> params, max_tokens |-> params,
     ollama_url |-> ollama_url_var,
     api_key |-> IF backend_var \in {"openai", "openrouter"} THEN api_key_var
                 ELSE "None",
     site_name |-> "SwarmUI", system_prompt |-> system_prompt]

\* the end of a worker thread that also puts its model back as the
\* selected model
FinishWorker_selects_model(thread, w, outcome, made) ==
    /\ workers' = workers \ { w }
    /\ calls' = made
    /\ lastOp' = Op(thread, outcome, << w.model >>, << >>)
    /\ track' = NoTrack
    /\ selected_model' = w.model
    /\ UNCHANGED << api, is_connected, available_models, all_models,
                    filtered_models, listbox_sel, credentials,
                    default_model_var, model_search_var, params, settings_file,
                    issued >>

\* the end of worker thread w: what it posted to the GUI thread with
\* root.after (a result, an error message, or a notice) and why, and the
\* calls it made.  The posted callbacks write display widgets only.
FinishWorker(thread, w, outcome, made) ==
    /\ workers' = workers \ { w }
    /\ calls' = made
    /\ lastOp' = Op(thread, outcome, << w.model >>, << >>)
    /\ track' = NoTrack
    /\ UNCHANGED << guiState, issued >>

\* the outcome of a thread that made its client call: the value returned is
\* posted as the result, an exception as an error message
Outcome(r) ==
    IF r.raised THEN << "error_posted", "request_failed" >>
    ELSE << "result_posted", "response" >>

\* self.api is None when the thread reaches its client call: the
\* AttributeError is caught like any other exception
NoClientOutcome == << "error_posted", "no_client" >>

\* _analyze_image_thread
analyze_image_thread ==
    \E w \in workers, wan_i2v \in BOOLEAN, resp \in GenerationResponses :
        /\ w.kind = "analyze"
        /\ IF ~api.live
           THEN /\ resp = TransportError /\ ~wan_i2v
                /\ FinishWorker("_analyze_image_thread", w, NoClientOutcome, << >>)
           ELSE LET r == analyze_image(api,
                             WorkerArgs(w, IF wan_i2v THEN "director" ELSE "None"),
                             resp)
                IN  FinishWorker("_analyze_image_thread", w, Outcome(r),
                                 << r.call >>)

\* _process_batch_thread: the folder holds images, or none, or cannot be read
process_batch_thread ==
    \E w \in workers, folder \in { "images", "empty", "unreadable" },
       resp \in GenerationResponses :
        /\ w.kind = "batch"
        /\ IF folder # "images"
           THEN /\ resp = TransportError
                /\ FinishWorker("_process_batch_thread", w,
                                IF folder = "empty"
                                THEN << "notice_posted", "no_images" >>
                                ELSE << "error_posted", "folder_unreadable" >>,
                                << >>)
           ELSE IF ~api.live
           THEN /\ resp = TransportError
                /\ FinishWorker("_process_batch_thread", w, NoClientOutcome, << >>)
           ELSE LET r == batch_caption_images(api, WorkerArgs(w, "None"), resp)
                IN  FinishWorker("_process_batch_thread", w, Outcome(r),
                                 << r.call >>)

\* _enhance_text_thread: get_enhancement_system_prompt is never empty
enhance_text_thread ==
    \E w \in workers, resp \in GenerationResponses :
        /\ w.kind = "enhance"
        /\ IF ~api.live
           THEN /\ resp = TransportError
                /\ FinishWorker("_enhance_text_thread", w, NoClientOutcome, << >>)
           ELSE LET r == enhance_text_prompt(api, WorkerArgs(w, "enhancer"), resp)
                IN  FinishWorker("_enhance_text_thread", w, Outcome(r),
                                 << r.call >>)

\* toggle_connection with one catalog on offer: a listing either fails or
\* carries llava and bakllava
ConnectClicked ==
    IF is_connected
    THEN disconnect_backend
    ELSE \E sresp \in ConnectSessionResponses :
         \E vresp \in ValidationResponses(backend_var) :
         \E lresp \in { r \in ListingResponses(backend_var) :
                            \/ r.kind = "transport_error"
                            \/ r.models = << llava, bakllava >> } :
             connect_backend(sresp, vresp, lresp)

Handlers == { "analyze_single_image", "process_batch", "enhance_text" }
WorkerThreads ==
    { "_analyze_image_thread", "_process_batch_thread", "_enhance_text_thread" }

\* the thread an operation runs on: the three thread targets run on worker
\* threads, every button, entry and combobox handler on the GUI thread
ThreadOf(op) == IF op \in WorkerThreads THEN "worker" ELSE "gui"

\* a backend switch while the three tabs are in use: the history of a
\* handler that has just started a worker is kept across the switch
BackendPickedAtWork ==
    \E b \in Backends \ {backend_var} :
        /\ on_backend_change(b)
        /\ lastOp' = IF lastOp.op \in Handlers /\ lastOp.steps[1] = "started"
                      THEN lastOp ELSE Idle

\* the user types "vl" in the search entry, or empties it
SearchTypedAtWork ==
    \E text \in { EmptyStr, << 118, 108 >> } \ {model_search_var} :
        filter_models(text)

\* the application starts without a settings file, or with one that names
\* OpenAI and holds its key
InitWork == \E f \in { g \in InitFiles : g.backend \in { "", "openai" } } : InitFrom(f)

\* The three tabs in use next to the connection tab
NextWork ==
    \/ ConnectClicked
    \/ ModelClicked
    \/ SearchTypedAtWork
    \/ BackendPickedAtWork
    \/ analyze_single_image
    \/ process_batch
    \/ enhance_text
    \/ analyze_image_thread
    \/ process_batch_thread
    \/ enhance_text_thread

SpecWork == InitWork /\ [][NextWork]_vars

(***************************************************************************)
(* The credentials and the settings file: backend switches, typing into    *)
(* the entries, the Model Settings tab, Save Settings, and closing and     *)
(* starting the application again (the only caller of load_settings)       *)
(***************************************************************************)
\* what the entry of backend b shows: the URL entry for Ollama and TextGen,
\* the API-key entry for OpenAI and OpenRouter
ShownCredential(b, url, key) == IF b \in { "ollama", "textgen" } THEN url ELSE key

\* a backend switch, remembering the backend left and what its entry showed
BackendSwitched ==
    \E b \in Backends \ {backend_var} :
        /\ on_backend_change(b)
        /\ lastOp' = Op("on_backend_change",
                        << backend_var,
                           ShownCredential(backend_var, ollama_url_var,
                                           api_key_var) >>, << >>, << >>)

\* the user edits a sampling parameter in the Model Settings tab
ParamsEdited ==
    /\ \E p \in ParamValues \ {params} : params' = p
    /\ calls' = << >>
    /\ lastOp' = Idle
    /\ track' = NoTrack
    /\ UNCHANGED << api, is_connected, selected_model, available_models,
                    all_models, filtered_models, listbox_sel, credentials,
                    default_model_var, model_search_var, settings_file, issued,
                    workers >>

\* save_settings, the Save Settings button: the file is written, or the
\* write fails and the file stays as it was
save_settings ==
    \E written \in BOOLEAN :
        /\ openai_api_key' = StoredOpenai(api_key_var)
        /\ openrouter_api_key' = StoredOpenrouter(api_key_var)
        /\ textgen_url' = StoredTextgen
        /\ settings_file' = IF written THEN Saved ELSE settings_file
        /\ calls' = << >>
        /\ lastOp' = Op("save_settings",
                        << IF written THEN "saved" ELSE "failed" >>, << >>, << >>)
        /\ track' = NoTrack
        /\ UNCHANGED << api, is_connected, selected_model, available_models,
                        all_models, filtered_models, listbox_sel, backend_var,
                        swarmui_url_var, ollama_url_var, api_key_var,
                        default_model_var, model_search_var, params, issued,
                        workers >>

\* the application is closed and started again: __init__ and load_settings
Restart ==
    LET g == load_settings(settings_file)
    IN  /\ api' = NewClient(DefaultSwarmUrl)
        /\ is_connected' = FALSE
        /\ selected_model' = None
        /\ available_models' = << >>
        /\ all_models' = << >>
        /\ filtered_models' = << >>
        /\ listbox_sel' = 0
        /\ backend_var' = g.backend
        /\ swarmui_url_var' = g.swarmui_url
        /\ ollama_url_var' = g.ollama_url
        /\ api_key_var' = g.api_key
        /\ openai_api_key' = g.openai_api_key
        /\ openrouter_api_key' = g.openrouter_api_key
        /\ textgen_url' = g.textgen_url
        /\ default_model_var' = g.default_model
        /\ model_search_var' = EmptyStr
        /\ params' = g.params
        /\ calls' = << >>
        /\ issued' = NoToken
        /\ lastOp' = Op("load_settings",
                        IF lastOp.op = "save_settings" THEN lastOp.steps
                        ELSE << >>, << >>, << >>)
        /\ track' = NoTrack
        /\ workers' = {}
        /\ UNCHANGED settings_file

NextSettings ==
    \/ BackendSwitched
    \/ KeyTyped
    \/ UrlTyped
    \/ ParamsEdited
    \/ save_settings
    \/ Restart

SpecSettings == Init /\ [][NextSettings]_vars

(***************************************************************************)
(* Properties                                                              *)
(***************************************************************************)
JustConnected == lastOp.op = "connect_backend"
PassedBoth(steps) ==
    Len(steps) >= 2 /\ steps[1] = "bootstrap_ok" /\ steps[2] = "validation_ok"
ListingFailed(steps) == Len(steps) = 3 /\ steps[3] = "listing_failed"
ListingOk(steps) == Len(steps) = 3 /\ steps[3] = "listing_ok"
IsAscending(s) == \A i, j \in 1..Len(s) : i < j => ~StrLess(s[j], s[i])
SameElements(s, t) ==
    Len(s) = Len(t) /\ { s[i] : i \in 1..Len(s) } = { t[i] : i \in 1..Len(t) }
BootstrapCalls == { "get_swarmui_session", "reset_session" }

\* C1: the connected flag turns true only in a connect_backend step whose
\* session bootstrap succeeded and whose backend validation then succeeded
\* (Ollama/TextGen: the gateway connect call, sent with the new session
\* token, reported success; OpenAI/OpenRouter: the API key is non-empty); a
\* connect only runs while disconnected, and no other step sets the flag.
C1_ConnectedOnlyAfterBootstrapAndValidation ==
    [][ /\ (lastOp'.op = "connect_backend") => ~is_connected
        /\ (is_connected' /\ ~is_connected) =>
              /\ lastOp'.op = "connect_backend"
              /\ PassedBoth(lastOp'.steps)
              /\ calls'[1].fn = "get_swarmui_session"
              /\ calls'[1].success
              /\ backend_var \in {"ollama", "textgen"} =>
                    /\ Len(calls') >= 2
                    /\ calls'[2].fn \in {"connect_ollama", "connect_textgen"}
                    /\ calls'[2].success
                    /\ calls'[2].token = api'.session_id
                    /\ calls'[2].token # NoToken
              /\ backend_var \in {"openai", "openrouter"} => api_key_var # ""
              /\ backend_var \in Backends
      ]_vars

\* C1 witness: a connect through the gateway has just set the flag
C1_Witness ==
    /\ is_connected
    /\ JustConnected
    /\ Len(calls) >= 2
    /\ calls[2].fn = "connect_textgen"
    /\ calls[2].success

\* C2: a connect_backend step whose bootstrap fails or whose validation fails
\* leaves the connected flag, all_models, filtered_models and the selected
\* model as they were.
C2_FailedConnectChangesNothing ==
    [][ (lastOp'.op = "connect_backend" /\ ~PassedBoth(lastOp'.steps)) =>
            UNCHANGED << is_connected, all_models, filtered_models,
                         selected_model >>
      ]_vars

\* C2 witness: bootstrap succeeded, then the OpenAI validation failed on an
\* empty API key
C2_Witness ==
    /\ JustConnected
    /\ lastOp.steps = << "bootstrap_ok", "validation_failed" >>
    /\ backend_var = "openai"
    /\ api_key_var = ""
    /\ ~is_connected

\* C3: after a connect whose bootstrap and validation succeeded and whose
\* catalog listing failed, the state is disconnected and holds no catalog
\* and no selection.
C3_ListingFailureLeavesDisconnected ==
    (JustConnected /\ ListingFailed(lastOp.steps)) =>
        /\ ~is_connected
        /\ all_models = << >>
        /\ filtered_models = << >>
        /\ selected_model = None

\* C4: a disconnect_backend step from a connected state ends disconnected,
\* with all_models and filtered_models empty, no selected model and no client,
\* and leaves the stored credentials, the default model and the settings
\* file as they were.
C4_DisconnectClearsAndPreserves ==
    [][ (is_connected /\ lastOp'.op = "disconnect_backend") =>
            /\ ~is_connected'
            /\ all_models' = << >>
            /\ filtered_models' = << >>
            /\ selected_model' = None
            /\ ~api'.live
            /\ UNCHANGED << openai_api_key, openrouter_api_key, textgen_url,
                            ollama_url_var, default_model_var, settings_file >>
      ]_vars

\* C4 witness: a disconnect has just run with a stored key, a default model
\* and a settings file in place
C4_Witness ==
    /\ lastOp.op = "disconnect_backend"
    /\ ~is_connected
    /\ openai_api_key # ""
    /\ default_model_var # EmptyStr
    /\ settings_file.exists

\* C5: after set-default with d selected, then disconnect, then a successful
\* connect with the same backend whose catalog contains d, d is selected.
C5_DefaultReselectedOnReconnect ==
    (track.phase = 3 /\ is_connected /\ track.backend = backend_var
        /\ Member(track.d, all_models)) =>
        selected_model = track.d

\* C5 witness: the reconnect found d in a catalog where d is not first
C5_Witness ==
    /\ track.phase = 3
    /\ is_connected
    /\ Len(all_models) >= 2
    /\ Member(track.d, all_models)
    /\ all_models[1] # track.d

\* C6: after a successful connect whose listing returned a non-empty list,
\* all_models is that list in ascending order, and the selected model is the
\* default model when the catalog has it, else the first model.
C6_CatalogSortedAndSelected ==
    (JustConnected /\ ListingOk(lastOp.steps) /\ lastOp.fetched # << >>) =>
        /\ is_connected
        /\ IsAscending(all_models)
        /\ SameElements(all_models, lastOp.fetched)
        /\ selected_model = IF Member(default_model_var, all_models)
                            THEN default_model_var
                            ELSE all_models[1]

\* C6 witness: the listing came unsorted and the default is the second model
C6_Witness ==
    /\ JustConnected
    /\ ListingOk(lastOp.steps)
    /\ Len(lastOp.fetched) >= 2
    /\ lastOp.fetched # all_models
    /\ default_model_var = all_models[2]

\* C7: after a successful TextGen connect, the catalog is the model list the
\* gateway's connect call returned, in ascending order, and a model is
\* selected.
C7_TextgenCatalogPopulated ==
    (JustConnected /\ is_connected /\ backend_var = "textgen"
        /\ lastOp.validated # << >>) =>
        /\ IsAscending(all_models)
        /\ SameElements(all_models, lastOp.validated)
        /\ Truthy(selected_model)

\* the session field of a call is as the claim asks: present with the
\* client's token when there is one, absent when there is none, the caller's
\* fields untouched
CarriesSession(c) ==
    /\ DOMAIN c.wire =
          (DOMAIN c.data) \cup (IF c.token # NoToken THEN {"session_id"} ELSE {})
    /\ \A k \in DOMAIN c.data : c.wire[k] = c.data[k]
    /\ c.token # NoToken => c.wire["session_id"] = c.token
    /\ c.token = api.session_id \/ c.fn \in BootstrapCalls

\* C8 as stated: every gateway request carries the token when one exists.
C8_EveryGatewayRequestCarriesToken ==
    \A i \in 1..Len(calls) : calls[i].gateway => CarriesSession(calls[i])

\* C8: every gateway request other than the session bootstrap itself carries
\* the client's current token in session_id when there is one and has no
\* such field when there is none; the caller's fields are not altered.
C8_RequestsExceptBootstrapCarryToken ==
    \A i \in 1..Len(calls) :
        (calls[i].gateway /\ calls[i].fn \notin BootstrapCalls) =>
            CarriesSession(calls[i])

\* C8 witness: an analyze request went out with the session token
C8_Witness ==
    /\ Len(calls) = 1
    /\ calls[1].fn = "analyze_image"
    /\ calls[1].token \in Tokens
    /\ calls[1].wire["session_id"] = calls[1].token

\* C9: the stored token is the one of the last bootstrap or reset answer
\* that carried a token (none if there was none); a bootstrap or reset whose
\* answer carried none keeps the token it found and reports the failure
\* (bootstrap: success = false; reset: raises).
C9_TokenIsLastIssued ==
    /\ api.session_id = issued
    /\ \A i \in 1..Len(calls) :
          (calls[i].fn \in BootstrapCalls /\ calls[i].resp_kind # "session_id") =>
              /\ api.session_id = calls[i].token
              /\ ~calls[i].success
              /\ calls[i].fn = "reset_session" => calls[i].outcome = "raised"

\* C9 witness: a reset failed while a token was stored, and the token stayed
C9_Witness ==
    /\ Len(calls) = 1
    /\ calls[1].fn = "reset_session"
    /\ calls[1].resp_kind = "transport_error"
    /\ calls[1].token \in Tokens
    /\ api.session_id = calls[1].token

\* C10 as stated: a transport failure always comes back as a value with
\* success = false, never as an exception.
C10_TransportFailureAlwaysReturned ==
    \A i \in 1..Len(calls) :
        calls[i].resp_kind = "transport_error" =>
            calls[i].outcome = "returned" /\ ~calls[i].success

\* C10: a transport failure comes back as a value with success = false from
\* the session bootstrap and from the OpenAI/OpenRouter listing; the methods
\* that go through make_request (connect_ollama, connect_textgen,
\* analyze_image, batch_caption_images, enhance_text_prompt) and
\* reset_session raise it as an exception.
C10_TransportFailureReturnedOrRaised ==
    \A i \in 1..Len(calls) :
        calls[i].resp_kind = "transport_error" =>
            IF calls[i].fn \in {"get_swarmui_session", "get_openai_models",
                                "get_openrouter_models"}
            THEN calls[i].outcome = "returned" /\ ~calls[i].success
            ELSE calls[i].outcome = "raised"

\* C10 witness: an analyze call met a transport failure and raised
C10_Witness ==
    /\ Len(calls) = 1
    /\ calls[1].fn = "analyze_image"
    /\ calls[1].resp_kind = "transport_error"
    /\ calls[1].outcome = "raised"

GenerationCalls == { "analyze_image", "batch_caption_images", "enhance_text_prompt" }
KeyedBackends == { "openai", "openrouter" }

\* C11: with OpenAI or OpenRouter active and an empty API key, no request
\* other than the session bootstrap is made: a connect makes no validation
\* and no listing call, and no analyze, batch or enhance request is built
\* for such a backend with an empty (or absent) key.
C11_NoRequestWithEmptyKey ==
    /\ (lastOp.op = "connect_backend" /\ backend_var \in KeyedBackends
            /\ api_key_var = "") =>
          \A i \in 1..Len(calls) : calls[i].fn \in BootstrapCalls
    /\ \A i \in 1..Len(calls) :
          (calls[i].fn \in GenerationCalls
              /\ calls[i].data["backendType"] \in KeyedBackends) =>
              calls[i].data["apiKey"] \notin { "", "None" }

\* the fields of a request body that belong to the operation itself
OwnFields(fn) ==
    IF fn = "analyze_image"
    THEN { "model", "imageData", "prompt", "temperature", "maxTokens" }
    ELSE IF fn = "batch_caption_images"
    THEN { "folderPath", "model", "captionStyle", "triggerWord", "temperature",
           "maxTokens" }
    ELSE { "model", "prompt", "temperature", "maxTokens" }

\* the key set the claim mandates for backend kind b, with or without a
\* system prompt override
MandatedKeys(fn, b, override) ==
    OwnFields(fn) \cup { "backendType" }
        \cup (IF b = "ollama" THEN { "ollamaUrl" } ELSE {})
        \cup (IF b \in KeyedBackends THEN { "apiKey" } ELSE {})
        \cup (IF b = "openrouter" THEN { "siteName" } ELSE {})
        \cup (IF override \notin { "None", "" } THEN { "systemPrompt" } ELSE {})

\* C12: the body analyze_image, batch_caption_images and enhance_text_prompt
\* build for backend kind ollama, openai or openrouter has exactly the
\* mandated keys: the operation's own fields, backendType equal to the kind,
\* ollamaUrl iff ollama, apiKey iff openai or openrouter, siteName iff
\* openrouter (the fixed default "SwarmUI"), systemPrompt iff a non-empty
\* override was supplied (with the override as its value).
C12_RequestBodyHasMandatedKeys ==
    (lastOp.op \in GenerationCalls /\ lastOp.steps[1] \in { "ollama" } \cup KeyedBackends) =>
        LET data == calls[1].data
            b == lastOp.steps[1]
            override == lastOp.steps[2]
        IN  /\ calls[1].fn = lastOp.op
            /\ DOMAIN data = MandatedKeys(lastOp.op, b, override)
            /\ data["backendType"] = b
            /\ b = "openrouter" => data["siteName"] = "SwarmUI"
            /\ "systemPrompt" \in DOMAIN data => data["systemPrompt"] = override

\* C12 witness: an OpenRouter enhance request with a system prompt override
C12_Witness ==
    /\ lastOp.op = "enhance_text_prompt"
    /\ lastOp.steps = << "openrouter", "director" >>
    /\ DOMAIN calls[1].data =
          { "model", "prompt", "temperature", "maxTokens", "backendType",
            "apiKey", "siteName", "systemPrompt" }

\* the request fields that can carry a backend URL
UrlFields == { "ollamaUrl", "textgenUrl" }

\* C13: every request built for the TextGen backend (the connect call and
\* the analyze, batch and enhance requests with backendType textgen) has a
\* backend URL field holding the content of the shared URL entry
\* (ollama_url_var), and has no apiKey field.
C13_TextgenRequestsCarryUrl ==
    \A i \in 1..Len(calls) :
        (\/ calls[i].fn = "connect_textgen"
         \/ /\ calls[i].fn \in GenerationCalls
            /\ calls[i].data["backendType"] = "textgen") =>
            /\ \E k \in UrlFields \cap DOMAIN calls[i].data :
                   calls[i].data[k] = ollama_url_var
            /\ "apiKey" \notin DOMAIN calls[i].data

\* C14: a backend switch changes no stored credential (OpenAI key,
\* OpenRouter key, TextGen URL), and a switch back to the backend that was
\* just left presents, in that backend's entry, what the entry showed when
\* the backend was left (Ollama URL, TextGen URL, OpenAI key, OpenRouter key).
C14_SwitchKeepsCredentials ==
    [][ lastOp'.op = "on_backend_change" =>
            /\ UNCHANGED << openai_api_key, openrouter_api_key, textgen_url >>
            /\ (lastOp.op = "on_backend_change" /\ lastOp.steps[1] = backend_var') =>
                  ShownCredential(backend_var', ollama_url_var', api_key_var')
                      = lastOp.steps[2]
      ]_vars

settingsFields ==
    << swarmui_url_var, backend_var, ollama_url_var, api_key_var,
       openai_api_key, openrouter_api_key, textgen_url, default_model_var,
       params >>

\* C15: a save leaves the entries, the default model and the sampling
\* parameters as they are and stores the active backend's credential as its
\* entry shows it, the stored credentials of the other backends staying as
\* they were; a load that follows a successful save then reproduces every
\* field (base URL, backend, URL and key entries, the stored OpenAI key,
\* OpenRouter key and TextGen URL, default model, sampling parameters).
C15_SaveThenLoadReproduces ==
    [][ /\ lastOp'.op = "save_settings" =>
              /\ UNCHANGED << swarmui_url_var, backend_var, ollama_url_var,
                              api_key_var, default_model_var, params >>
              /\ openai_api_key' = IF backend_var = "openai" THEN api_key_var
                                   ELSE openai_api_key
              /\ openrouter_api_key' = IF backend_var = "openrouter"
                                       THEN api_key_var ELSE openrouter_api_key
              /\ textgen_url' = IF backend_var = "textgen" THEN ollama_url_var
                                ELSE textgen_url
        /\ (lastOp.op = "save_settings" /\ lastOp.steps = << "saved" >>
                /\ lastOp'.op = "load_settings") =>
              UNCHANGED settingsFields
      ]_vars

\* C15 witness: a load has followed a save made with TextGen active, a URL
\* of its own in the entry, a stored OpenAI key, a default model and edited
\* sampling parameters
C15_Witness ==
    /\ lastOp.op = "load_settings"
    /\ lastOp.steps = << "saved" >>
    /\ backend_var = "textgen"
    /\ ollama_url_var = ""
    /\ textgen_url = ""
    /\ openai_api_key = "sk-1"
    /\ default_model_var = llava
    /\ params = "edited"

JustFiltered == lastOp.op = "filter_models"

\* the rows of all whose id contains text, letter case ignored
MatchingRows(all, text) ==
    { i \in 1..Len(all) : Contains(Lower(text), Lower(all[i])) }

\* f is exactly the matching members of all, in all's order
IsFilterOf(f, all, text) ==
    /\ Len(f) = Cardinality(MatchingRows(all, text))
    /\ \A i \in MatchingRows(all, text) :
          f[Cardinality({ j \in MatchingRows(all, text) : j <= i })] = all[i]

\* f is a subsequence of all
IsSubsequence(f, all) ==
    \E g \in [1..Len(f) -> 1..Len(all)] :
        /\ \A k \in 1..Len(f) : all[g[k]] = f[k]
        /\ \A k, l \in 1..Len(f) : k < l => g[k] < g[l]

\* C16: after filter_models with any search text, filtered_models is exactly
\* the members of all_models, in all_models' order, whose id contains the
\* text case-insensitively (and the listbox shows that list).
C16_FilterIsCaseInsensitiveMatch ==
    JustFiltered =>
        /\ IsFilterOf(filtered_models, all_models, model_search_var)
        /\ available_models = filtered_models

\* C16 witness: "vl" has kept Qwen-VL and dropped llava
C16_Witness ==
    /\ JustFiltered
    /\ model_search_var = << 118, 108 >>
    /\ all_models = << QwenVL, llava >>
    /\ filtered_models = << QwenVL >>

\* C17: a filter_models run with the empty text (typed, or written by
\* clear_model_search), after whatever filters came before, leaves
\* filtered_models equal to all_models, element for element.
C17_EmptyFilterRestoresAll ==
    (JustFiltered /\ model_search_var = EmptyStr) =>
        filtered_models = all_models

\* C17 witness: the empty text was written while the list was narrowed
C17_Witness ==
    /\ JustFiltered
    /\ model_search_var = EmptyStr
    /\ lastOp.steps = << "narrowed" >>
    /\ Len(all_models) >= 2
    /\ filtered_models = all_models

\* C18: in every reachable state filtered_models is a subsequence of
\* all_models.
C18_FilteredWithinAll == IsSubsequence(filtered_models, all_models)

\* C18 witness: a proper, non-empty part of the catalog is shown
C18_Witness ==
    /\ is_connected
    /\ filtered_models # << >>
    /\ Len(filtered_models) < Len(all_models)

\* C19: a filter_models step leaves the selected model, all_models, the
\* default model and the connected flag as they were, whatever the text.
C19_FilterKeepsSelection ==
    [][ lastOp'.op = "filter_models" =>
            UNCHANGED << selected_model, all_models, default_model_var,
                         is_connected >>
      ]_vars

\* C19 witness: the filter has hidden the selected model, which is still
\* selected
C19_Witness ==
    /\ JustFiltered
    /\ Truthy(selected_model)
    /\ filtered_models # << >>
    /\ ~Member(selected_model, filtered_models)

\* C20 as stated: after a filter change the selected model, if there is one,
\* is a member of filtered_models.
C20_SelectedWithinFiltered ==
    (JustFiltered /\ Truthy(selected_model)) =>
        Member(selected_model, filtered_models)

\* C20: after a filter change the selected model, if there is one, is a
\* member of all_models; it need not be a member of filtered_models.
C20_SelectedWithinAll ==
    (JustFiltered /\ Truthy(selected_model)) =>
        Member(selected_model, all_models)

\* C20 witness: a filter matching nothing has left the selection in place
C20_Witness ==
    /\ JustFiltered
    /\ Truthy(selected_model)
    /\ all_models # << >>
    /\ filtered_models = << >>

connectionState ==
    << is_connected, api, all_models, filtered_models, available_models,
       selected_model >>

\* C21: analyze_single_image, process_batch and enhance_text run while no
\* model is selected start no worker and make no request, and leave the
\* connection state (flag, client, catalog, selection) as it was.
C21_NoModelNoWorker ==
    [][ (lastOp'.op \in Handlers /\ ~Truthy(selected_model)) =>
            /\ lastOp'.steps[1] # "started"
            /\ workers' = workers
            /\ calls' = << >>
            /\ UNCHANGED connectionState
      ]_vars

\* C21 witness: Enhance Text was clicked with a text entered, connected,
\* with no model selected
C21_Witness ==
    /\ lastOp.op = "enhance_text"
    /\ lastOp.steps[2] = "input_present"
    /\ is_connected
    /\ ~Truthy(selected_model)
    /\ workers = {}

\* C22: every network call of a user-triggered operation (connect, model
\* listing, analyze, batch, enhance) is made on a worker thread, never on
\* the GUI thread.
C22_NetworkCallsOnWorkers ==
    calls # << >> => ThreadOf(lastOp.op) = "worker"

\* C23: a step of a worker thread, under any interleaving with other
\* workers and with the GUI handlers, writes neither the connected flag, the
\* client and its session token, the catalog lists, the selection nor the
\* default model; it ends by posting one outcome to the GUI thread.
C23_WorkersWriteNothingShared ==
    [][ ThreadOf(lastOp'.op) = "worker" =>
            /\ UNCHANGED << connectionState, listbox_sel, default_model_var,
                            issued >>
            /\ lastOp'.steps[1] \in { "result_posted", "error_posted",
                                      "notice_posted" }
      ]_vars

\* C23 witness: a worker has finished its request while another worker is
\* still running
C23_Witness ==
    /\ lastOp.op \in WorkerThreads
    /\ lastOp.steps[1] = "result_posted"
    /\ calls # << >>
    /\ workers # {}
    /\ is_connected

\* C24: a worker, once started, ends with the outcome of its own request
\* whatever happens in between; in particular no worker ends in an error
\* for want of the client that a disconnect has removed.
C24_WorkersRunToTheirOwnOutcome ==
    lastOp.op \in WorkerThreads => lastOp.steps # NoClientOutcome

\* C28: with the connection up, a model selected and the handler's own
\* input there, analyze_single_image, process_batch and enhance_text start
\* their worker, whatever the search text is.
C28_AcceptedWhateverTheFilter ==
    (lastOp.op \in Handlers /\ is_connected /\ Truthy(selected_model)
        /\ lastOp.steps[2] = "input_present") =>
        lastOp.steps[1] = "started"

\* C30: the request a worker builds carries the backend kind, the backend
\* URL and the API key that were in effect when its handler started it,
\* also when the backend was switched in between.
C30_RequestCarriesValuesAtIssue ==
    [][ (lastOp.op \in Handlers /\ lastOp.steps[1] = "started"
            /\ Cardinality(workers) = 1
            /\ lastOp'.op \in WorkerThreads /\ calls' # << >>) =>
            LET data == calls'[1].data
            IN  /\ data["backendType"] = lastOp.steps[3]
                /\ lastOp.steps[3] = "ollama" =>
                      /\ "ollamaUrl" \in DOMAIN data
                      /\ data["ollamaUrl"] = lastOp.steps[4]
                /\ lastOp.steps[3] \in KeyedBackends =>
                      /\ "apiKey" \in DOMAIN data
                      /\ data["apiKey"] = lastOp.steps[5]
      ]_vars

\* C25: in every state in which is_connected is false (at start, after a
\* failed connect, after a disconnect) all_models and filtered_models are
\* empty and no model is selected.
C25_DisconnectedHasNoCatalog ==
    ~is_connected =>
        /\ all_models = << >>
        /\ filtered_models = << >>
        /\ selected_model = None

\* C25 witness: a disconnect has run while a search text was in the search
\* box
C25_Witness ==
    /\ lastOp.op = "disconnect_backend"
    /\ ~is_connected
    /\ model_search_var # EmptyStr

\* C26: in every state filtered_models is the case-insensitive substring
\* match of the current search text over all_models, also right after a
\* connect made with a search text in the search box.
C26_FilteredMatchesSearchText ==
    IsFilterOf(filtered_models, all_models, model_search_var)

\* C27: in a connect to Ollama, the call that fetches the catalog carries
\* the URL of the Ollama URL entry, the same as the validation call before
\* it.
C27_CatalogFetchedFromConfiguredUrl ==
    (JustConnected /\ backend_var = "ollama" /\ Len(calls) = 3) =>
        /\ calls[2].data["ollamaUrl"] = ollama_url_var
        /\ calls[3].data["ollamaUrl"] = calls[2].data["ollamaUrl"]

\* C29: a step that rewrites the settings file other than save_settings (the
\* automatic save after an API-key edit) keeps the sampling parameters that
\* save_settings wrote to the file, so that a later load_settings finds them.
C29_AutoSaveKeepsSavedParams ==
    [][ (settings_file.has_params /\ settings_file' # settings_file
            /\ lastOp'.op # "save_settings") =>
            load_settings(settings_file').params =
                load_settings(settings_file).params
      ]_vars

====
